---- MODULE Spec2Model ----
(***************************************************************************)
(* A model of the pretty-print library: the document constructors and the  *)
(* renderer.  Strings are sequences of one-character strings, "\n" is the  *)
(* line break.  A document is a record with a tag, as in the source; a raw  *)
(* JavaScript string (the `string` half of `Doc | string`) is a record     *)
(* [str |-> chars], which has no tag.                                      *)
(***************************************************************************)
EXTENDS Integers, Sequences, FiniteSets, TLC

VARIABLES
  call,     \* the expression whose value is rendered (constructor and arguments)
  doc,      \* the document passed to render
  stack,    \* the continuations of the promise chain still to run, first first
  off,      \* the value the promise chain last resolved with (the threaded column)
  pending,  \* the write the sink has not completed yet: << >> or <<w>>
  writes,   \* every fragment handed to writer.write, in order of issue
  out,      \* the characters the sink has accepted (StringWriter.str)
  state,    \* "start" before the call, "running" until render's promise
            \* settles, then "done" (resolved) or "failed" (rejected or thrown)
  error,    \* what render failed with: NoError, the sink's error or the value thrown
  peer      \* a second render call on the same document, with a sink of its own

vars == <<call, doc, stack, off, pending, writes, out, state, error, peer>>

(***************************************************************************)
(* Bounds of the model.                                                    *)
(***************************************************************************)
MaxItems == 3
MaxOffset == 2
MaxList == 2

(***************************************************************************)
(* Strings.                                                                *)
(***************************************************************************)
RawString(s) == [str |-> s]

NoError == [none |-> TRUE]

undefined == [undefined |-> TRUE]

IsObject(x) == "tag" \in DOMAIN x

IsString(x) == "str" \in DOMAIN x

IsUndefined(x) == "undefined" \in DOMAIN x

\* " ".repeat(n)
RECURSIVE repeat(_, _)
repeat(s, n) == IF n <= 0 THEN << >> ELSE s \o repeat(s, n - 1)

Max(a, b) == IF a >= b THEN a ELSE b

(***************************************************************************)
(* The document constructors.                                              *)
(***************************************************************************)
text(t) == [tag |-> "TextDoc", text |-> t]

empty == [tag |-> "EmptyDoc"]

blank == text(<< >>)

comma == text(<<",">>)

space == text(<<" ">>)

toDoc(d) == IF IsObject(d) THEN d ELSE text(d.str)

MapToDoc(docs) == [i \in 1..Len(docs) |-> toDoc(docs[i])]

vcat(docs) == [tag |-> "VerticalDoc", docs |-> MapToDoc(docs)]

indent(docs) == [tag |-> "IndentDoc", docs |-> MapToDoc(docs)]

PlusDoc(l, r) == [tag |-> "PlusDoc", l |-> l, r |-> r]

PlusPlusDoc(l, sep, r) == [tag |-> "PlusPlusDoc", l |-> l, sep |-> sep, r |-> r]

\* p returning the Empty left operand instead of the right one
pKeepsEmptyLeft(l, r) == IF l.tag = "EmptyDoc" THEN l ELSE PlusDoc(l, r)

p(l, r) == IF l.tag = "EmptyDoc" THEN r ELSE PlusDoc(l, r)

RECURSIVE pp(_, _, _)
\* pp without the test for the blank text
ppKeepsBlankSeparator(l, r, sep) ==
  IF IsString(sep) /\ sep.str = << >>
  THEN pp(l, r, blank)
  ELSE IF IsObject(sep)
       THEN IF sep.tag = "EmptyDoc"
            THEN p(l, r)
            ELSE PlusPlusDoc(l, sep, r)
       ELSE pp(l, r, toDoc(sep))

pp(l, r, sep) ==
  IF IsString(sep) /\ sep.str = << >>
  THEN pp(l, r, blank)
  ELSE IF IsObject(sep)
       THEN IF sep.tag = "EmptyDoc"
            THEN p(l, r)
            ELSE IF sep.tag = "TextDoc" /\ sep.text = << >>
                 THEN p(l, r)
                 ELSE PlusPlusDoc(l, sep, r)
       ELSE pp(l, r, toDoc(sep))

\* allButTheFirst.reduce((a, b) => pp(a, b, sep), theFirst), from element i on
RECURSIVE hsepReduce(_, _, _, _)
hsepReduce(docDocs, sep, a, i) ==
  IF i > Len(docDocs) THEN a
  ELSE hsepReduce(docDocs, sep, pp(a, docDocs[i], sep), i + 1)

\* hsep without the short-circuit for a single element
hsepFoldsFromEmpty(docs, sep) ==
  IF Len(docs) = 0 THEN empty
  ELSE hsepReduce(MapToDoc(docs), sep, empty, 1)

hsep(docs, sep) ==
  IF Len(docs) = 0 THEN empty
  ELSE LET docDocs == MapToDoc(docs)
       IN  IF Len(docDocs) = 1 THEN docDocs[1]
           ELSE hsepReduce(docDocs, sep, docDocs[1], 2)

\* docDocs.slice(1).reduce((a, b) => p(a, b), docDocs[0]), from element i on
RECURSIVE hcatReduce(_, _, _)
hcatReduce(docDocs, a, i) ==
  IF i > Len(docDocs) THEN a
  ELSE hcatReduce(docDocs, p(a, docDocs[i]), i + 1)

hcat(docs) ==
  IF Len(docs) = 0 THEN empty
  ELSE LET docDocs == MapToDoc(docs)
       IN  IF Len(docDocs) = 1 THEN docDocs[1]
           ELSE hcatReduce(docDocs, docDocs[1], 2)

nest(offset, d) == [tag |-> "NestDoc", offset |-> offset, doc |-> toDoc(d)]

RECURSIVE punctuateLoop(_, _, _, _)
\* the loop running up to last instead of last - 1
punctuateLoopToLast(docDocs, docSeparator, lp, result) ==
  IF lp <= Len(docDocs)
  THEN punctuateLoop(docDocs, docSeparator, lp + 1,
                     Append(result, p(docDocs[lp], docSeparator)))
  ELSE result

\* for (let lp = 0; lp < last - 1; lp += 1) result.push(p(docDocs[lp], docSeparator)),
\* lp counted from 1
punctuateLoop(docDocs, docSeparator, lp, result) ==
  IF lp < Len(docDocs)
  THEN punctuateLoop(docDocs, docSeparator, lp + 1,
                     Append(result, p(docDocs[lp], docSeparator)))
  ELSE result

punctuate(separator, docs) ==
  LET last == Len(docs)
      docDocs == MapToDoc(docs)
  IN  IF last = 0 \/ last = 1 THEN docDocs
      ELSE Append(punctuateLoop(docDocs, toDoc(separator), 1, << >>), docDocs[last])

RECURSIVE joinLoop(_, _, _, _, _)
\* the loop pushing separator before the last element too
joinLoopOneSeparator(docs, docSeparator, lastSeparator, index, result) ==
  IF index = Len(docs)
  THEN LET r1 == IF index > 1 THEN Append(result, docSeparator) ELSE result
       IN  Append(r1, docs[index])
  ELSE LET r1 == IF index > 1 THEN Append(result, docSeparator) ELSE result
       IN  joinLoop(docs, docSeparator, lastSeparator, index + 1,
                    Append(r1, docs[index]))

\* the while (true) loop of join; index counts from 1
joinLoop(docs, docSeparator, lastSeparator, index, result) ==
  IF index = Len(docs)
  THEN LET r1 == IF index > 1
                 THEN Append(result, IF IsUndefined(lastSeparator)
                                     THEN docSeparator ELSE lastSeparator)
                 ELSE result
       IN  Append(r1, docs[index])
  ELSE LET r1 == IF index > 1 THEN Append(result, docSeparator) ELSE result
       IN  joinLoop(docs, docSeparator, lastSeparator, index + 1,
                    Append(r1, docs[index]))

join(docs, separator, lastSeparator) ==
  IF Len(docs) = 0 THEN blank
  ELSE hcat(joinLoop(docs, toDoc(separator), lastSeparator, 1, << >>))

(***************************************************************************)
(* render.  The promise chain is a stack of continuations: a frame is the  *)
(* callback a .then() registered, run with the value the chain resolved    *)
(* with (off).  A configuration c is the record of the render's variables. *)
(***************************************************************************)
RenderpFrame(d, leftMargin) == [op |-> "renderp", d |-> d, leftMargin |-> leftMargin]

LineFrame(line, leftMargin) == [op |-> "line", line |-> line, leftMargin |-> leftMargin]

EolFrame(idx, n) == [op |-> "eol", idx |-> idx, n |-> n]

\* writer.write(encoder.encode(bytes)).then((_) => ...): the write is issued now;
\* when the sink completes it the chain goes on with `value` and the frames `then`.
Write(c, bytes, value, then) ==
  [c EXCEPT !.pending = Append(@, [bytes |-> bytes, value |-> value, then |-> then]),
            !.writes = Append(@, bytes)]

\* throw d, or a rejection: the callbacks still chained are skipped and render
\* fails with e
Fail(c, e) == [c EXCEPT !.state = "failed", !.error = e, !.stack = << >>]

IsNotEmptyDoc(line) == line.tag # "EmptyDoc"

\* docs.filter((line) => line.tag !== "EmptyDoc")
NewDocs(docs) == SelectSeq(docs, IsNotEmptyDoc)

\* (o < leftMargin) ? " ".repeat(leftMargin - o) : ""
VerticalSpaces(o, leftMargin) ==
  IF o < leftMargin THEN repeat(<<" ">>, leftMargin - o) ELSE << >>

\* idx != newDocs.length - 1, with idx counted from 1
LineBreakAfter(idx, n) == idx # n

\* renderVertically comparing idx with the length of the unfiltered list
renderVerticallyUnfilteredLength(c, docs, leftMargin, offset) ==
  LET newDocs == NewDocs(docs)
      n == Len(newDocs)
      chain == [j \in 1..(2 * n) |->
                  IF j % 2 = 1
                  THEN LineFrame(newDocs[(j + 1) \div 2], leftMargin)
                  ELSE EolFrame(j \div 2, Len(docs))]
  IN  [c EXCEPT !.stack = chain \o @, !.off = offset]

\* The chain renderVertically builds with forEach: per remaining line, the
\* padding-and-render callback and then the line-break callback.
renderVertically(c, docs, leftMargin, offset) ==
  LET newDocs == NewDocs(docs)
      n == Len(newDocs)
      chain == [j \in 1..(2 * n) |->
                  IF j % 2 = 1
                  THEN LineFrame(newDocs[(j + 1) \div 2], leftMargin)
                  ELSE EolFrame(j \div 2, n)]
  IN  [c EXCEPT !.stack = chain \o @, !.off = offset]

\* (offset < newLeftMargin) ? " ".repeat(newLeftMargin - offset) : ""
NestSpaces(offset, newLeftMargin) ==
  IF offset < newLeftMargin THEN repeat(<<" ">>, newLeftMargin - offset) ELSE << >>

\* the inner document rendered from the column the write position is at
NestColumnKeepsColumn(offset, newLeftMargin) == Max(offset, newLeftMargin)

\* the column the inner document of a NestDoc is rendered from
NestColumn(offset, newLeftMargin) == newLeftMargin

renderPlusPlus(c, d, leftMargin, offset) ==
  IF d.l.tag = "EmptyDoc" /\ d.r.tag = "EmptyDoc"
  THEN [c EXCEPT !.off = offset]
  ELSE IF d.l.tag = "EmptyDoc"
       THEN [c EXCEPT !.stack = <<RenderpFrame(d.r, leftMargin)>> \o @, !.off = offset]
       ELSE IF d.r.tag = "EmptyDoc"
            THEN [c EXCEPT !.stack = <<RenderpFrame(d.l, leftMargin)>> \o @,
                           !.off = offset]
            ELSE [c EXCEPT !.stack = <<RenderpFrame(d.l, leftMargin),
                                       RenderpFrame(d.sep, leftMargin),
                                       RenderpFrame(d.r, leftMargin)>> \o @,
                           !.off = offset]

\* the new margin taken from the node's offset alone
renderNestFromZero(c, d, leftMargin, offset) ==
  LET newLeftMargin == d.offset
      spaces == NestSpaces(offset, newLeftMargin)
  IN  Write(c, spaces, NestColumn(offset, newLeftMargin),
            <<RenderpFrame(d.doc, newLeftMargin)>>)

renderNest(c, d, leftMargin, offset) ==
  LET newLeftMargin == leftMargin + d.offset
      spaces == NestSpaces(offset, newLeftMargin)
  IN  Write(c, spaces, NestColumn(offset, newLeftMargin),
            <<RenderpFrame(d.doc, newLeftMargin)>>)

\* the lines of an IndentDoc aligned to the ambient margin
IndentMarginAmbient(leftMargin, offset) == leftMargin

\* the margin of an IndentDoc: renderVertically(d.docs, offset, offset)
IndentMargin(leftMargin, offset) == offset

\* renderp with a last branch that returns the column instead of throwing
renderpUnknownAsEmpty(c, d, leftMargin, offset) ==
  CASE d.tag = "EmptyDoc" -> [c EXCEPT !.off = offset]
    [] d.tag = "TextDoc" -> Write(c, d.text, offset + Len(d.text), << >>)
    [] d.tag = "VerticalDoc" -> renderVertically(c, d.docs, leftMargin, offset)
    [] d.tag = "PlusDoc" ->
         [c EXCEPT !.stack = <<RenderpFrame(d.l, leftMargin),
                               RenderpFrame(d.r, leftMargin)>> \o @,
                   !.off = offset]
    [] d.tag = "PlusPlusDoc" -> renderPlusPlus(c, d, leftMargin, offset)
    [] d.tag = "NestDoc" -> renderNest(c, d, leftMargin, offset)
    [] d.tag = "IndentDoc" ->
         renderVertically(c, d.docs, IndentMargin(leftMargin, offset), offset)
    [] OTHER -> [c EXCEPT !.off = offset]

\* renderp(d, leftMargin, offset, writer), called in configuration c
renderp(c, d, leftMargin, offset) ==
  CASE d.tag = "EmptyDoc" -> [c EXCEPT !.off = offset]
    [] d.tag = "TextDoc" -> Write(c, d.text, offset + Len(d.text), << >>)
    [] d.tag = "VerticalDoc" -> renderVertically(c, d.docs, leftMargin, offset)
    [] d.tag = "PlusDoc" ->
         [c EXCEPT !.stack = <<RenderpFrame(d.l, leftMargin),
                               RenderpFrame(d.r, leftMargin)>> \o @,
                   !.off = offset]
    [] d.tag = "PlusPlusDoc" -> renderPlusPlus(c, d, leftMargin, offset)
    [] d.tag = "NestDoc" -> renderNest(c, d, leftMargin, offset)
    [] d.tag = "IndentDoc" ->
         renderVertically(c, d.docs, IndentMargin(leftMargin, offset), offset)
    [] OTHER -> Fail(c, d)

\* the line rendered without waiting for the write of its padding
renderLineNoAwait(c, line, leftMargin, o) ==
  LET spaces == VerticalSpaces(o, leftMargin)
  IN  renderp(Write(c, spaces, o + Len(spaces), << >>), line, leftMargin,
              o + Len(spaces))

\* off.then((o) => { spaces; write(spaces).then(renderp(line, leftMargin, o + spaces.length)) })
renderLine(c, line, leftMargin, o) ==
  LET spaces == VerticalSpaces(o, leftMargin)
  IN  Write(c, spaces, o + Len(spaces), <<RenderpFrame(line, leftMargin)>>)

\* .then((o) => idx != newDocs.length - 1 ? write("\n").then((_) => 0) : o)
renderEol(c, idx, n, o) ==
  IF LineBreakAfter(idx, n)
  THEN Write(c, <<"\n">>, 0, << >>)
  ELSE [c EXCEPT !.off = o]

\* the sink completes the pending write (StringWriter.write appends the text)
writeComplete(c) ==
  LET w == c.pending[1]
  IN  [c EXCEPT !.out = @ \o w.bytes, !.pending = Tail(@), !.off = w.value,
                !.stack = w.then \o @]

\* a rejected write whose error is recorded while the chain goes on
writeFailSwallowed(c, e) == [c EXCEPT !.pending = Tail(@), !.error = e]

\* the sink rejects the pending write with e: nothing is appended, no callback
\* of the chain has a rejection handler, so render's promise rejects with e
writeFail(c, e) == [Fail(c, e) EXCEPT !.pending = Tail(@)]

\* .then((_) => {}): the promise render returned resolves
resolve(c) == [c EXCEPT !.state = "done"]

\* render(doc, writer) up to its first suspension point: renderp(doc, 0, 0, writer)
render(d) ==
  [stack |-> <<RenderpFrame(d, 0)>>, off |-> 0, pending |-> << >>,
   writes |-> << >>, out |-> << >>, state |-> "running", error |-> NoError]

\* one step of the chain
step(c) ==
  IF c.pending # << >> THEN writeComplete(c)
  ELSE IF c.stack = << >> THEN resolve(c)
  ELSE LET f == Head(c.stack)
           k == [c EXCEPT !.stack = Tail(@)]
       IN  CASE f.op = "renderp" -> renderp(k, f.d, f.leftMargin, c.off)
             [] f.op = "line" -> renderLine(k, f.line, f.leftMargin, c.off)
             [] f.op = "eol" -> renderEol(k, f.idx, f.n, c.off)

\* the configuration in which render(d, writer) has resolved
RECURSIVE run(_)
run(c) == IF c.state \in {"done", "failed"} THEN c ELSE run(step(c))

Rendered(d) == run(render(d))

(***************************************************************************)
(* The expressions a run renders: every constructor of the library applied *)
(* to arguments drawn from small sets.                                     *)
(***************************************************************************)
SeqsUpTo(S, n) == UNION {[1..k -> S] : k \in 0..n}

\* what a caller puts in a list: documents and raw strings
Items == {empty, blank, text(<<"a">>), RawString(<<"b", "c">>)}

Texts == {blank, text(<<"a">>), RawString(<<"b", "c">>)}

Separators == {space, empty, RawString(<< >>), RawString(<<"-">>), text(<<",", " ">>)}

Offsets == 0..MaxOffset

\* nest takes any number: the offsets below zero
NegativeOffsets == (0 - MaxOffset)..(0 - 1)

Leaves == {empty, blank, text(<<"a">>), text(<<"b", "c">>)}

\* documents of one constructor over leaves
Docs1 ==
  Leaves
  \cup {vcat(ds) : ds \in SeqsUpTo(Leaves, MaxList)}
  \cup {indent(ds) : ds \in SeqsUpTo(Leaves, MaxList)}
  \cup {nest(k, d) : k \in Offsets, d \in Leaves}
  \cup {p(l, r) : l \in Leaves, r \in Leaves}
  \cup {pp(l, r, space) : l \in Leaves, r \in Leaves}

\* and of one more constructor around them
Docs2 ==
  Docs1
  \cup {nest(k, d) : k \in Offsets, d \in Docs1}
  \cup {p(text(<<"a">>), d) : d \in Docs1}
  \cup {p(d, text(<<"b", "c">>)) : d \in Docs1}
  \cup {vcat(<<d, text(<<"a">>)>>) : d \in Docs1}
  \cup {vcat(<<text(<<"a">>), d>>) : d \in Docs1}
  \cup {indent(<<text(<<"a">>), d>>) : d \in Docs1}

\* documents the tests render
NestText == p(text(<<"a", "b", "c">>), nest(10, RawString(<<"x", "y", "z">>)))

NestBlock ==
  p(text(<<"a", "b", "c">>), nest(2, vcat(<<RawString(<<"h", "i">>), RawString(<<"t", "o">>)>>)))

\* an indented block inside a nest that is reached beyond its margin
NestIndent ==
  p(text(<<"a", "b", "c">>), nest(2, indent(<<RawString(<<"h", "i">>), RawString(<<"t", "o">>)>>)))

Calls ==
  [fn : {"render"}, d : Docs2 \cup {NestText, NestBlock, NestIndent}]
  \cup [fn : {"vcat", "indent"}, prefix : {empty, text(<<"a">>)},
        docs : SeqsUpTo(Items, MaxItems)]
  \cup [fn : {"hcat"}, docs : SeqsUpTo(Items, MaxItems)]
  \cup [fn : {"hsep"}, docs : SeqsUpTo(Items, MaxItems), sep : Separators]
  \cup [fn : {"join"}, docs : SeqsUpTo(Texts, MaxItems), separator : Separators,
        lastSeparator : {undefined, RawString(<<"+">>), text(<<"&">>)}]
  \cup [fn : {"punctuate"}, separator : {comma, RawString(<<"-">>), empty},
        docs : SeqsUpTo(Items, MaxItems)]
  \cup [fn : {"nest"}, prefix : {empty, text(<<"a">>), text(<<"a", "b", "c">>)},
        outer : Offsets, offset : Offsets, docs : SeqsUpTo(Texts, MaxItems)]
  \cup [fn : {"nestNegative"}, prefix : {empty, text(<<"a">>)}, outer : Offsets,
        offset : NegativeOffsets, docs : SeqsUpTo(Texts, MaxList),
        suffix : {empty, nest(MaxOffset, text(<<"x">>))}]
  \cup [fn : {"p"}, l : Leaves, r : Leaves]
  \cup [fn : {"pp"}, l : Leaves, r : Leaves, sep : Separators \cup {blank}]
  \cup [fn : {"hcatIndent"}, prefix : Texts \cup {RawString(<<"a", "b", "c">>)}, docs : SeqsUpTo(Texts, MaxItems),
        suffix : {empty, text(<<"x">>)}]

\* the document the expression evaluates to
Value(e) ==
  CASE e.fn = "render" -> e.d
    [] e.fn = "vcat" -> p(e.prefix, vcat(e.docs))
    [] e.fn = "indent" -> p(e.prefix, indent(e.docs))
    [] e.fn = "hcat" -> hcat(e.docs)
    [] e.fn = "hsep" -> hsep(e.docs, e.sep)
    [] e.fn = "join" -> join(e.docs, e.separator, e.lastSeparator)
    [] e.fn = "punctuate" -> hcat(punctuate(e.separator, e.docs))
    [] e.fn = "nest" -> p(e.prefix, nest(e.outer, nest(e.offset, vcat(e.docs))))
    [] e.fn = "hcatIndent" -> hcat(<<e.prefix, indent(e.docs), e.suffix>>)
    [] e.fn = "p" -> p(e.l, e.r)
    [] e.fn = "pp" -> pp(e.l, e.r, e.sep)
    [] e.fn = "nestNegative" ->
         p(p(e.prefix, nest(e.outer, nest(e.offset, vcat(e.docs)))), e.suffix)

(***************************************************************************)
(* The state machine: one render call.                                     *)
(***************************************************************************)
Cfg ==
  [stack |-> stack, off |-> off, pending |-> pending, writes |-> writes,
   out |-> out, state |-> state, error |-> error]

\* no render call has been made with the peer's sink yet
Idle ==
  [doc |-> undefined, stack |-> << >>, off |-> 0, pending |-> << >>,
   writes |-> << >>, out |-> << >>, state |-> "start", error |-> NoError]

Set(c) ==
  /\ stack' = c.stack
  /\ off' = c.off
  /\ pending' = c.pending
  /\ writes' = c.writes
  /\ out' = c.out
  /\ state' = c.state
  /\ error' = c.error
  /\ UNCHANGED <<call, doc, peer>>

\* before the call: the expression is chosen, nothing has been built or written
Start(c) ==
  /\ call = c
  /\ doc = undefined
  /\ stack = << >>
  /\ off = 0
  /\ pending = << >>
  /\ writes = << >>
  /\ out = << >>
  /\ state = "start"
  /\ error = NoError
  /\ peer = Idle

Init == \E c \in Calls : Start(c)

\* the caller evaluates the expression and calls render on its value
CallRender ==
  /\ state = "start"
  /\ doc' = Value(call)
  /\ stack' = render(doc').stack
  /\ off' = render(doc').off
  /\ pending' = render(doc').pending
  /\ writes' = render(doc').writes
  /\ out' = render(doc').out
  /\ state' = render(doc').state
  /\ error' = render(doc').error
  /\ UNCHANGED <<call, peer>>

\* the chain is ready to run its next callback
Ready == state = "running" /\ pending = << >> /\ stack # << >>

Calling(tag) == Ready /\ Head(stack).op = "renderp" /\ Head(stack).d.tag = tag

RenderEmptyDoc == Calling("EmptyDoc") /\ Set(step(Cfg))

RenderTextDoc == Calling("TextDoc") /\ Set(step(Cfg))

RenderVerticalDoc == Calling("VerticalDoc") /\ Set(step(Cfg))

RenderPlusDoc == Calling("PlusDoc") /\ Set(step(Cfg))

RenderPlusPlusDoc == Calling("PlusPlusDoc") /\ Set(step(Cfg))

RenderNestDoc == Calling("NestDoc") /\ Set(step(Cfg))

RenderIndentDoc == Calling("IndentDoc") /\ Set(step(Cfg))

RenderLine == Ready /\ Head(stack).op = "line" /\ Set(step(Cfg))

RenderEol == Ready /\ Head(stack).op = "eol" /\ Set(step(Cfg))

WriteComplete == state = "running" /\ pending # << >> /\ Set(step(Cfg))

\* render's promise resolving while a write is still with the sink
ResolveEarly == state = "running" /\ stack = << >> /\ Set(resolve(Cfg))

Resolve == state = "running" /\ pending = << >> /\ stack = << >> /\ Set(step(Cfg))

Next ==
  \/ CallRender
  \/ RenderEmptyDoc
  \/ RenderTextDoc
  \/ RenderVerticalDoc
  \/ RenderPlusDoc
  \/ RenderPlusPlusDoc
  \/ RenderNestDoc
  \/ RenderIndentDoc
  \/ RenderLine
  \/ RenderEol
  \/ WriteComplete
  \/ Resolve

Spec == Init /\ [][Next]_vars

Done == state = "done"

\* Liveness: the event loop runs every callback that is ready, and the sink
\* completes every write it was given.
InitLive == \E c \in [fn : {"render"}, d : Docs2 \cup {NestBlock}] : Start(c)

SpecLive == InitLive /\ [][Next]_vars /\ WF_vars(WriteComplete) /\ WF_vars(Next)

(***************************************************************************)
(* Failing runs: a sink that rejects a write, and a value in the tree whose *)
(* tag is none of the seven.                                               *)
(***************************************************************************)
Tags ==
  {"EmptyDoc", "TextDoc", "VerticalDoc", "IndentDoc", "PlusDoc", "PlusPlusDoc",
   "NestDoc"}

\* a value that is not a Doc
Unknown == [tag |-> "CommentDoc"]

\* the errors a sink rejects a write with
SinkErrors == {[sink |-> "BrokenPipe"], [sink |-> "Interrupted"]}

UnknownDocs ==
  {Unknown}
  \cup {PlusDoc(l, r) : l, r \in {Unknown, text(<<"a">>)}}
  \cup {PlusPlusDoc(l, m, r) : l, m, r \in {Unknown, empty, text(<<"a">>)}}
  \cup {vcat(ds) : ds \in SeqsUpTo({Unknown, empty, text(<<"a">>)}, MaxList)}
  \cup {indent(ds) : ds \in SeqsUpTo({Unknown, text(<<"a">>)}, MaxList)}
  \cup {nest(k, d) : k \in Offsets, d \in {Unknown, PlusDoc(text(<<"a">>), Unknown)}}

InitFail == \E c \in [fn : {"render"}, d : Docs1 \cup UnknownDocs] : Start(c)

\* renderp reaches the value: throw d
RenderUnknown ==
  /\ Ready
  /\ Head(stack).op = "renderp"
  /\ Head(stack).d.tag \notin Tags
  /\ Set(step(Cfg))

\* the sink rejects the write that is pending
WriteFail == state = "running" /\ pending # << >> /\ \E e \in SinkErrors : Set(writeFail(Cfg, e))

NextFail ==
  \/ Next
  \/ RenderUnknown
  \/ WriteFail

SpecFail == InitFail /\ [][NextFail]_vars

(***************************************************************************)
(* Two render calls in flight: the peer renders the same document, or a    *)
(* document that shares it as a subtree, into a sink of its own.  Each     *)
(* call has its own encoder, margins and promise chain (they are locals    *)
(* and parameters of render, renderp and renderVertically); the callbacks  *)
(* of the two chains interleave in any order.                              *)
(***************************************************************************)
InitPar == \E c \in [fn : {"render"}, d : Docs1] : Start(c)

\* the documents the peer may be called with
PeerDocs == {doc, nest(1, doc), vcat(<<doc, doc>>)}

\* a second call of render, at any moment after the first
PeerCall ==
  /\ state # "start"
  /\ peer.state = "start"
  /\ \E d \in PeerDocs : peer' = render(d) @@ [doc |-> d]
  /\ UNCHANGED <<call, doc, stack, off, pending, writes, out, state, error>>

\* the peer's chain reading the column of the other call
PeerCfgSharedColumn == [peer EXCEPT !.off = off]

\* the variables the peer's callbacks close over
PeerCfg == peer

\* one callback of the peer's chain, or its sink completing a write
PeerStep ==
  /\ peer.state = "running"
  /\ peer' = step(PeerCfg)
  /\ UNCHANGED <<call, doc, stack, off, pending, writes, out, state, error>>

NextPar ==
  \/ Next
  \/ PeerCall
  \/ PeerStep

SpecPar == InitPar /\ [][NextPar]_vars

(***************************************************************************)
(* render of mod.ts (the class-based module): its own renderp and the      *)
(* write that follows the traversal.  Its documents are the instances of   *)
(* the classes EmptyDoc, TextDoc, VerticalDoc, PlusDoc, PlusPlusDoc and    *)
(* NestDoc, here the records with these tags.                              *)
(***************************************************************************)
NewlineFrame == [op |-> "newline"]

\* VerticalDoc branch: the chain over the lines that are not EmptyDoc; idx is
\* compared with d.docs.length - 1
renderVerticalMod(c, d, leftMargin, offset) ==
  IF Len(d.docs) = 0 THEN [c EXCEPT !.off = offset]
  ELSE LET lm == Max(leftMargin, offset)
           lines == SelectSeq(d.docs, IsNotEmptyDoc)
           chain == [j \in 1..(2 * Len(lines)) |->
                       IF j % 2 = 1
                       THEN LineFrame(lines[(j + 1) \div 2], lm)
                       ELSE EolFrame(j \div 2, Len(d.docs))]
       IN  [c EXCEPT !.stack = chain \o @, !.off = offset]

\* write(spaces).then((_) => renderp(line, lm, o))
renderLineMod(c, line, lm, o) ==
  LET spaces == IF o < lm THEN repeat(<<" ">>, lm - o) ELSE << >>
  IN  Write(c, spaces, o, <<RenderpFrame(line, lm)>>)

\* idx != d.docs.length - 1 ? write("\n").then((_) => 0) : o
renderEolMod(c, idx, n, o) ==
  IF idx # n THEN Write(c, <<"\n">>, 0, << >>) ELSE [c EXCEPT !.off = o]

renderNestMod(c, d, leftMargin, offset) ==
  LET newLeftMargin == leftMargin + d.offset
      spaces == IF offset < newLeftMargin
                THEN repeat(<<" ">>, newLeftMargin - offset) ELSE << >>
  IN  Write(c, spaces, Max(offset, newLeftMargin),
            <<RenderpFrame(d.doc, newLeftMargin)>>)

renderpMod(c, d, leftMargin, offset) ==
  CASE d.tag = "EmptyDoc" -> [c EXCEPT !.off = offset]
    [] d.tag = "TextDoc" -> Write(c, d.text, offset + Len(d.text), << >>)
    [] d.tag = "VerticalDoc" -> renderVerticalMod(c, d, leftMargin, offset)
    [] d.tag = "PlusDoc" ->
         [c EXCEPT !.stack = <<RenderpFrame(d.l, leftMargin),
                               RenderpFrame(d.r, leftMargin)>> \o @,
                   !.off = offset]
    [] d.tag = "PlusPlusDoc" -> renderPlusPlus(c, d, leftMargin, offset)
    [] d.tag = "NestDoc" -> renderNestMod(c, d, leftMargin, offset)

\* renderp(doc, 0, 0, writer).then((_) => writer.write(encoder.encode("\n")))
renderMod(d) ==
  [stack |-> <<RenderpFrame(d, 0), NewlineFrame>>, off |-> 0, pending |-> << >>,
   writes |-> << >>, out |-> << >>, state |-> "running", error |-> NoError]

stepMod(c) ==
  IF c.pending # << >> THEN writeComplete(c)
  ELSE IF c.stack = << >> THEN resolve(c)
  ELSE LET f == Head(c.stack)
           k == [c EXCEPT !.stack = Tail(@)]
       IN  CASE f.op = "renderp" -> renderpMod(k, f.d, f.leftMargin, c.off)
             [] f.op = "line" -> renderLineMod(k, f.line, f.leftMargin, c.off)
             [] f.op = "eol" -> renderEolMod(k, f.idx, f.n, c.off)
             [] f.op = "newline" -> Write(k, <<"\n">>, c.off, << >>)

\* Doc.p and Doc.pp of mod.ts build the node whatever the operands are
DocP(this, d) == PlusDoc(this, toDoc(d))

DocPP(this, d, sep) == PlusPlusDoc(this, toDoc(sep), toDoc(d))

ModDocs1 ==
  Leaves
  \cup {vcat(ds) : ds \in SeqsUpTo(Items, MaxList)}
  \cup {nest(k, d) : k \in Offsets, d \in Leaves}
  \cup {DocP(l, r) : l \in Leaves, r \in Leaves}
  \cup {DocPP(l, r, space) : l \in Leaves, r \in Leaves}

ModDocs ==
  ModDocs1
  \cup {nest(k, d) : k \in Offsets, d \in ModDocs1}
  \cup {DocP(text(<<"a">>), d) : d \in ModDocs1}

InitMod == \E c \in [fn : {"render"}, d : ModDocs] : Start(c)

ModCallRender ==
  /\ state = "start"
  /\ doc' = Value(call)
  /\ stack' = renderMod(doc').stack
  /\ off' = renderMod(doc').off
  /\ pending' = renderMod(doc').pending
  /\ writes' = renderMod(doc').writes
  /\ out' = renderMod(doc').out
  /\ state' = renderMod(doc').state
  /\ error' = renderMod(doc').error
  /\ UNCHANGED <<call, peer>>

ModRenderEmptyDoc == Calling("EmptyDoc") /\ Set(stepMod(Cfg))

ModRenderTextDoc == Calling("TextDoc") /\ Set(stepMod(Cfg))

ModRenderVerticalDoc == Calling("VerticalDoc") /\ Set(stepMod(Cfg))

ModRenderPlusDoc == Calling("PlusDoc") /\ Set(stepMod(Cfg))

ModRenderPlusPlusDoc == Calling("PlusPlusDoc") /\ Set(stepMod(Cfg))

ModRenderNestDoc == Calling("NestDoc") /\ Set(stepMod(Cfg))

ModRenderLine == Ready /\ Head(stack).op = "line" /\ Set(stepMod(Cfg))

ModRenderEol == Ready /\ Head(stack).op = "eol" /\ Set(stepMod(Cfg))

ModWriteNewline == Ready /\ Head(stack).op = "newline" /\ Set(stepMod(Cfg))

ModWriteComplete == state = "running" /\ pending # << >> /\ Set(stepMod(Cfg))

ModResolve ==
  state = "running" /\ pending = << >> /\ stack = << >> /\ Set(stepMod(Cfg))

NextMod ==
  \/ ModCallRender
  \/ ModRenderEmptyDoc
  \/ ModRenderTextDoc
  \/ ModRenderVerticalDoc
  \/ ModRenderPlusDoc
  \/ ModRenderPlusPlusDoc
  \/ ModRenderNestDoc
  \/ ModRenderLine
  \/ ModRenderEol
  \/ ModWriteNewline
  \/ ModWriteComplete
  \/ ModResolve

SpecMod == InitMod /\ [][NextMod]_vars

(***************************************************************************)
(* Helpers of the properties, written without the renderer's operators.    *)
(***************************************************************************)
\* the entries of a list that are not the Empty document, in order
RECURSIVE Remaining(_)
Remaining(docs) ==
  IF docs = << >> THEN << >>
  ELSE IF IsObject(Head(docs)) /\ Head(docs).tag = "EmptyDoc"
       THEN Remaining(Tail(docs))
       ELSE <<Head(docs)>> \o Remaining(Tail(docs))

\* the characters of a raw string or of a Text document
Chars(x) == IF IsString(x) THEN x.str ELSE IF x.tag = "TextDoc" THEN x.text ELSE << >>

RECURSIVE Blanks(_)
Blanks(n) == IF n <= 0 THEN << >> ELSE <<" ">> \o Blanks(n - 1)

\* the lines texts[i..], each after the first one of the block on a new line
\* that starts with `margin` blanks
RECURSIVE Block(_, _, _)
Block(texts, i, margin) ==
  IF i > Len(texts) THEN << >>
  ELSE (IF i > 1 THEN <<"\n">> \o Blanks(margin) ELSE << >>)
       \o Chars(texts[i]) \o Block(texts, i + 1, margin)

\* how many of the fragments in ws are the line break
RECURSIVE LineBreaks(_)
LineBreaks(ws) ==
  IF ws = << >> THEN 0
  ELSE (IF Head(ws) = <<"\n">> THEN 1 ELSE 0) + LineBreaks(Tail(ws))

\* the fragments that carry characters
RECURSIVE NonBlank(_)
NonBlank(ws) ==
  IF ws = << >> THEN << >>
  ELSE IF Head(ws) = << >> THEN NonBlank(Tail(ws))
       ELSE <<Head(ws)>> \o NonBlank(Tail(ws))

RECURSIVE TreeLineBreaks(_)
RECURSIVE ListLineBreaks(_)
ListLineBreaks(docs) ==
  IF docs = << >> THEN 0
  ELSE TreeLineBreaks(Head(docs)) + ListLineBreaks(Tail(docs))

TreeLineBreaks(d) ==
  CASE d.tag \in {"VerticalDoc", "IndentDoc"} ->
         Max(0, Len(Remaining(d.docs)) - 1) + ListLineBreaks(d.docs)
    [] d.tag = "PlusDoc" -> TreeLineBreaks(d.l) + TreeLineBreaks(d.r)
    [] d.tag = "PlusPlusDoc" ->
         TreeLineBreaks(d.l) + TreeLineBreaks(d.r)
         + (IF d.l.tag # "EmptyDoc" /\ d.r.tag # "EmptyDoc"
            THEN TreeLineBreaks(d.sep) ELSE 0)
    [] d.tag = "NestDoc" -> TreeLineBreaks(d.doc)
    [] OTHER -> 0

\* the characters of s that are line breaks
RECURSIVE CountBreaks(_)
CountBreaks(s) ==
  IF s = << >> THEN 0
  ELSE (IF Head(s) = "\n" THEN 1 ELSE 0) + CountBreaks(Tail(s))

C1_NoTrailingLineTerminator ==
  Done =>
    /\ CountBreaks(out) = TreeLineBreaks(doc)
    /\ LineBreaks(writes) = TreeLineBreaks(doc)
    /\ doc = blank => out = << >>
    /\ doc = vcat(<<RawString(<<"a">>), RawString(<<"b", "c">>)>>)
         => out = <<"a", "\n", "b", "c">>

(***************************************************************************)
(* C3.  Rendering hsep(items, sep) writes sep only between two operands    *)
(* that are both not the Empty document: the output of hsep(items, sep) is *)
(* the output of hsep(items without their Empty entries, sep), wherever    *)
(* and however many the Empty entries are.                                 *)
(***************************************************************************)
C3_HsepSkipsEmpty ==
  (Done /\ call.fn = "hsep") =>
    out = Rendered(hsep(Remaining(call.docs), call.sep)).out

(***************************************************************************)
(* C4.  Empty is a two-sided identity of p under rendering: for every      *)
(* document d, rendering p(empty, d), d and p(d, empty) writes the same    *)
(* characters and returns the same final column.                           *)
(***************************************************************************)
C4_EmptyIdentityOfP ==
  (Done /\ call.fn = "render") =>
    LET left == Rendered(p(empty, call.d))
        right == Rendered(p(call.d, empty))
    IN  /\ left.out = out
        /\ right.out = out
        /\ left.off = off
        /\ right.off = off

\* a document of several lines, which p(d, empty) wraps in a Plus node
C4_Witness ==
  /\ Done
  /\ call.fn = "render"
  /\ call.d.tag = "IndentDoc"
  /\ CountBreaks(out) = 1
  /\ off > 0
  /\ p(call.d, empty) # call.d

(***************************************************************************)
(* C5.  Rendering Nest(offset, inner), reached with margin m and column c, *)
(* writes exactly max(0, m + offset - c) blanks and then renders inner     *)
(* with margin m + offset from column m + offset, whatever c was;          *)
(* p(text("abc"), nest(10, "xyz")) renders as "abc", 7 blanks, "xyz" and   *)
(* p(text("abc"), nest(2, vcat(["hi", "to"]))) as "abchi\n  to".           *)
(***************************************************************************)
C5_NestStep ==
  Calling("NestDoc") =>
    LET f == Head(stack)
        newMargin == f.leftMargin + f.d.offset
        blanks == Blanks(Max(0, newMargin - off))
    IN  /\ writes' = Append(writes, blanks)
        /\ stack' = Tail(stack)
        /\ pending' = <<[bytes |-> blanks, value |-> newMargin,
                         then |-> <<RenderpFrame(f.d.doc, newMargin)>>]>>

C5_Nest ==
  /\ [][C5_NestStep]_vars
  /\ []((Done /\ doc = NestText) =>
          out = <<"a", "b", "c", " ", " ", " ", " ", " ", " ", " ", "x", "y", "z">>)
  /\ []((Done /\ doc = NestBlock) =>
          out = <<"a", "b", "c", "h", "i", "\n", " ", " ", "t", "o">>)

\* the block nested by 2 has been rendered after a prefix that ends at column 3
C5_Witness ==
  /\ Done
  /\ doc = NestBlock
  /\ out = <<"a", "b", "c", "h", "i", "\n", " ", " ", "t", "o">>

(***************************************************************************)
(* C6.  Margin law: for nest(k, vcat(items)) with all items single-line    *)
(* texts, rendered with ambient margin m, every line of the block after    *)
(* the first is m + k blanks followed by the item's text; m is the offset  *)
(* of an enclosing nest.                                                   *)
(***************************************************************************)
\* the lines texts[i..] of a block, each on a new line after `margin` blanks
RECURSIVE LaterLines(_, _, _)
LaterLines(texts, i, margin) ==
  IF i > Len(texts) THEN << >>
  ELSE <<"\n">> \o Blanks(margin) \o Chars(texts[i]) \o LaterLines(texts, i + 1, margin)

C6_MarginLaw ==
  (Done /\ call.fn = "nest" /\ call.docs # << >>) =>
    LET later == LaterLines(call.docs, 2, call.outer + call.offset)
        first == Len(out) - Len(later)
    IN  /\ first >= 0
        /\ SubSeq(out, first + 1, Len(out)) = later
        /\ CountBreaks(SubSeq(out, 1, first)) = 0
        /\ first >= Len(Chars(call.docs[1]))
        /\ SubSeq(out, first - Len(Chars(call.docs[1])) + 1, first) = Chars(call.docs[1])

\* a block of three lines inside two nests of positive offset
C6_Witness ==
  /\ Done
  /\ call.fn = "nest"
  /\ Len(call.docs) = 3
  /\ call.outer = 1
  /\ call.offset = 2
  /\ CountBreaks(out) = 2

RECURSIVE Joined(_, _, _, _)
Joined(docs, i, sep, last) ==
  IF i > Len(docs) THEN << >>
  ELSE (IF i = 1 THEN << >> ELSE IF i = Len(docs) THEN last ELSE sep)
       \o Chars(docs[i]) \o Joined(docs, i + 1, sep, last)

C8_Join ==
  (Done /\ call.fn = "join") =>
    LET sep == Chars(call.separator)
        last == IF call.lastSeparator = undefined THEN sep
                ELSE Chars(call.lastSeparator)
    IN  /\ out = Joined(call.docs, 1, sep, last)
        /\ call.docs = << >> => (doc = blank /\ out = << >>)

\* join(["a", "bc", "a"], ", ", "+") has rendered as "a, bc+a"
C8_Witness ==
  /\ Done
  /\ call.fn = "join"
  /\ call.separator = text(<<",", " ">>)
  /\ call.lastSeparator = RawString(<<"+">>)
  /\ out = <<"a", ",", " ", "b", "c", "+", "a">>

(***************************************************************************)
(* C9.  punctuate(separator, items) returns a sequence as long as items    *)
(* in which every element below the last is p(items[i], separator) and the *)
(* last is items[last] with nothing appended; of zero or one item it       *)
(* returns the items.  (Raw strings are items after toDoc.)                *)
(***************************************************************************)
C9_Punctuate ==
  (state # "start" /\ call.fn = "punctuate") =>
    LET r == punctuate(call.separator, call.docs)
        n == Len(call.docs)
    IN  /\ Len(r) = n
        /\ \A i \in 1..(n - 1) : r[i] = p(toDoc(call.docs[i]), toDoc(call.separator))
        /\ n >= 1 => r[n] = toDoc(call.docs[n])
        /\ n <= 1 => r = [i \in 1..n |-> toDoc(call.docs[i])]
        /\ doc = hcat(r)
        /\ Done => out = Joined(call.docs, 1, Chars(call.separator), Chars(call.separator))

\* hcat(punctuate(",", [.., .., ..])) of three texts has rendered
C9_Witness ==
  /\ Done
  /\ call.fn = "punctuate"
  /\ call.separator = comma
  /\ Len(call.docs) = 3
  /\ Len(Remaining(call.docs)) = 3
  /\ Len(NonBlank(writes)) >= 4

(***************************************************************************)
(* C10.  hcat([]) and hsep([], sep) are empty and render as ""; hcat([d])  *)
(* and hsep([d], sep) are d itself, with no node around it and no          *)
(* separator, so hcat([d]) renders as d does, for every d and sep.         *)
(***************************************************************************)
C10_HcatHsepUnits ==
  /\ (state # "start" /\ call.fn = "render") =>
       /\ hcat(<<call.d>>) = call.d
       /\ \A sep \in Separators : hsep(<<call.d>>, sep) = call.d
       /\ Done => (/\ Rendered(hcat(<<call.d>>)).out = out
                   /\ Rendered(hcat(<<call.d>>)).off = off)
  /\ (state # "start" /\ call.fn \in {"hcat", "hsep"} /\ Len(call.docs) = 0) =>
       /\ doc = empty
       /\ Done => (out = << >> /\ writes = << >>)
  /\ (state # "start" /\ call.fn \in {"hcat", "hsep"} /\ Len(call.docs) = 1) =>
       /\ doc = toDoc(call.docs[1])
       /\ Done => out = Chars(call.docs[1])

\* hsep(["bc"], "-") has rendered as "bc"
C10_Witness ==
  /\ Done
  /\ call.fn = "hsep"
  /\ call.docs = <<RawString(<<"b", "c">>)>>
  /\ call.sep = RawString(<<"-">>)
  /\ out = <<"b", "c">>

(***************************************************************************)
(* The traversal of a document written as one recursive function: the      *)
(* fragments in depth-first, left-to-right order, each with its kind       *)
(* ("text", "pad" or "eol"), and the column after them.                    *)
(***************************************************************************)
Frag(kind, bytes) == [kind |-> kind, bytes |-> bytes]

RECURSIVE Fragments(_, _, _)
RECURSIVE LineFragments(_, _, _, _)
LineFragments(items, i, lm, col) ==
  IF i > Len(items) THEN [ws |-> << >>, col |-> col]
  ELSE LET pad == Blanks(lm - col)
           item == Fragments(items[i], lm, col + Len(pad))
           rest == LineFragments(items, i + 1, lm, 0)
       IN  IF i = Len(items)
           THEN [ws |-> <<Frag("pad", pad)>> \o item.ws, col |-> item.col]
           ELSE [ws |-> <<Frag("pad", pad)>> \o item.ws \o <<Frag("eol", <<"\n">>)>>
                          \o rest.ws,
                 col |-> rest.col]

Fragments(d, lm, col) ==
  CASE d.tag = "EmptyDoc" -> [ws |-> << >>, col |-> col]
    [] d.tag = "TextDoc" -> [ws |-> <<Frag("text", d.text)>>, col |-> col + Len(d.text)]
    [] d.tag = "PlusDoc" ->
         LET l == Fragments(d.l, lm, col)
             r == Fragments(d.r, lm, l.col)
         IN  [ws |-> l.ws \o r.ws, col |-> r.col]
    [] d.tag = "PlusPlusDoc" ->
         IF d.l.tag = "EmptyDoc" THEN Fragments(d.r, lm, col)
         ELSE IF d.r.tag = "EmptyDoc" THEN Fragments(d.l, lm, col)
         ELSE LET l == Fragments(d.l, lm, col)
                  m == Fragments(d.sep, lm, l.col)
                  r == Fragments(d.r, lm, m.col)
              IN  [ws |-> l.ws \o m.ws \o r.ws, col |-> r.col]
    [] d.tag = "NestDoc" ->
         LET pad == Blanks(lm + d.offset - col)
             inner == Fragments(d.doc, lm + d.offset, lm + d.offset)
         IN  [ws |-> <<Frag("pad", pad)>> \o inner.ws, col |-> inner.col]
    [] d.tag = "VerticalDoc" -> LineFragments(Remaining(d.docs), 1, lm, col)
    [] d.tag = "IndentDoc" -> LineFragments(Remaining(d.docs), 1, col, col)

BytesOf(fs) == [i \in 1..Len(fs) |-> fs[i].bytes]

IsPrefix(s, t) == Len(s) <= Len(t) /\ \A i \in 1..Len(s) : s[i] = t[i]

RECURSIVE Flat(_)
Flat(ws) == IF ws = << >> THEN << >> ELSE Head(ws) \o Flat(Tail(ws))

(***************************************************************************)
(* C11.  render issues its writes one at a time and in depth-first,        *)
(* left-to-right order: at most one write is pending at any moment, the    *)
(* writes issued so far are always a prefix of the traversal's fragments   *)
(* (left before separator before right; per vertical item its padding, the *)
(* item, then the line break), the sink holds the completed ones in that   *)
(* order, and when render has resolved all of them have been issued,       *)
(* whenever the sink completes each write.                                 *)
(***************************************************************************)
C11_WritesInOrder ==
  /\ Len(pending) <= 1
  /\ state \in {"running", "done"} =>
       /\ IsPrefix(writes, BytesOf(Fragments(doc, 0, 0).ws))
       /\ out = Flat(SubSeq(writes, 1, Len(writes) - Len(pending)))
  /\ Done => writes = BytesOf(Fragments(doc, 0, 0).ws)

\* the padding of a second line waits for the sink, after a prefix, the first
\* line and its line break
C11_Witness ==
  /\ state = "running"
  /\ call.fn = "vcat"
  /\ Len(pending) = 1
  /\ Len(writes) >= 5
  /\ writes[Len(writes) - 1] = <<"\n">>

(***************************************************************************)
(* C12.  When the sink rejects a write, render fails with the sink's own   *)
(* error: the rejected write was the pending one, nothing of it reaches    *)
(* the sink, what the sink accepted before stays, and from then on no      *)
(* write is issued (none retried), the error is not replaced and render    *)
(* never resolves.                                                         *)
(***************************************************************************)
C12_FailureStep ==
  /\ (error = NoError /\ error' \in SinkErrors) =>
       /\ pending # << >>
       /\ state' = "failed"
       /\ pending' = << >>
       /\ writes' = writes
       /\ out' = out
  /\ error \in SinkErrors =>
       /\ state' = "failed"
       /\ error' = error
       /\ writes' = writes
       /\ out' = out

C12_SinkFailure ==
  /\ [][C12_FailureStep]_vars
  /\ [](error \in SinkErrors =>
          /\ state = "failed"
          /\ out = Flat(SubSeq(writes, 1, Len(writes) - 1)))

\* the third write is rejected: two fragments are in the sink and the
\* traversal had more to write
C12_Witness ==
  /\ state = "failed"
  /\ error \in SinkErrors
  /\ Len(writes) = 3
  /\ out # << >>
  /\ doc \in Docs1
  /\ Len(BytesOf(Fragments(doc, 0, 0).ws)) > 3

(***************************************************************************)
(* C15.  When the traversal reaches a value that is none of the seven      *)
(* variants, render fails with that value: it never resolves, and the      *)
(* writes it has issued are exactly the fragments that precede the value   *)
(* in traversal order, none for the value and none after it.               *)
(***************************************************************************)
Mark == text(<<"?">>)

\* the document with the mark in the place of every unknown value
RECURSIVE Marked(_)
Marked(d) ==
  CASE d.tag \in {"EmptyDoc", "TextDoc"} -> d
    [] d.tag \in {"VerticalDoc", "IndentDoc"} ->
         [d EXCEPT !.docs = [i \in 1..Len(d.docs) |-> Marked(d.docs[i])]]
    [] d.tag = "PlusDoc" -> [d EXCEPT !.l = Marked(d.l), !.r = Marked(d.r)]
    [] d.tag = "PlusPlusDoc" ->
         [d EXCEPT !.l = Marked(d.l), !.sep = Marked(d.sep), !.r = Marked(d.r)]
    [] d.tag = "NestDoc" -> [d EXCEPT !.doc = Marked(d.doc)]
    [] OTHER -> Mark

\* the fragments before the first mark
RECURSIVE BeforeMark(_)
BeforeMark(ws) ==
  IF ws = << >> \/ Head(ws) = Mark.text THEN << >>
  ELSE <<Head(ws)>> \o BeforeMark(Tail(ws))

MarkedWrites == BytesOf(Fragments(Marked(doc), 0, 0).ws)

C15_UnknownVariant ==
  /\ error = Unknown =>
       /\ state = "failed"
       /\ pending = << >>
       /\ writes = BeforeMark(MarkedWrites)
       /\ out = Flat(writes)
  /\ Done => BeforeMark(MarkedWrites) = MarkedWrites

\* the left operand and the separator are in the sink, the right operand is
\* the unknown value
C15_Witness ==
  /\ state = "failed"
  /\ error = Unknown
  /\ doc = PlusPlusDoc(text(<<"a">>), text(<<"a">>), Unknown)
  /\ out = <<"a", "a">>

(***************************************************************************)
(* C13.  Two render calls on the same document, or on documents sharing    *)
(* it as a subtree, each with its own sink, do not disturb each other:     *)
(* however their callbacks and write completions interleave, each call     *)
(* issues the writes of its own traversal, in order, and when it has       *)
(* resolved its sink holds what a render on its own delivers; the document *)
(* is what it was before the calls, and a call made after the other has    *)
(* resolved writes the same again.                                         *)
(***************************************************************************)
Alone(d) == BytesOf(Fragments(d, 0, 0).ws)

C13_ConcurrentRenders ==
  /\ state # "start" =>
       /\ doc = Value(call)
       /\ IsPrefix(writes, Alone(doc))
       /\ out = Flat(SubSeq(writes, 1, Len(writes) - Len(pending)))
  /\ Done => writes = Alone(doc)
  /\ peer.state # "start" =>
       /\ peer.doc \in PeerDocs
       /\ IsPrefix(peer.writes, Alone(peer.doc))
       /\ peer.out = Flat(SubSeq(peer.writes, 1, Len(peer.writes) - Len(peer.pending)))
  /\ peer.state = "done" => peer.writes = Alone(peer.doc)
  /\ (Done /\ peer.state = "done" /\ peer.doc = doc) => peer.out = out

\* both calls have a write pending at their sinks, at different places of
\* the same document
C13_Witness ==
  /\ state = "running"
  /\ peer.state = "running"
  /\ peer.doc = doc
  /\ pending # << >>
  /\ peer.pending # << >>
  /\ Len(writes) >= 3
  /\ Len(peer.writes) = 1

(***************************************************************************)
(* C14.  A negative nest offset is handled in one consistent way: either   *)
(* the document is rejected with an error, or nest(offset, d) with         *)
(* offset < 0 behaves everywhere as nest(0, d): inside an enclosing nest   *)
(* and after a prefix it gives the same output and the same final column,  *)
(* and no part of the document is rendered with a margin below 0.          *)
(***************************************************************************)
NestAsZero ==
  Rendered(p(p(call.prefix, nest(call.outer, nest(0, vcat(call.docs)))), call.suffix))

C14_NegativeOffset ==
  (call.fn = "nestNegative" /\ state # "start") =>
    \/ state = "failed"
    \/ /\ \A i \in 1..Len(stack) :
             "leftMargin" \in DOMAIN stack[i] => stack[i].leftMargin >= 0
       /\ Done => (out = NestAsZero.out /\ off = NestAsZero.off)

(***************************************************************************)
(* C16.  p(l, r) simplifies on both sides: it returns r when l is Empty    *)
(* and l when r is Empty, so no Plus node in a document built by p, hcat,  *)
(* punctuate or join has an Empty operand.                                 *)
(***************************************************************************)
RECURSIVE NoEmptyOperand(_)
NoEmptyOperand(d) ==
  CASE d.tag = "PlusDoc" ->
         /\ d.l.tag # "EmptyDoc"
         /\ d.r.tag # "EmptyDoc"
         /\ NoEmptyOperand(d.l)
         /\ NoEmptyOperand(d.r)
    [] d.tag = "PlusPlusDoc" ->
         NoEmptyOperand(d.l) /\ NoEmptyOperand(d.sep) /\ NoEmptyOperand(d.r)
    [] d.tag = "NestDoc" -> NoEmptyOperand(d.doc)
    [] d.tag \in {"VerticalDoc", "IndentDoc"} ->
         \A i \in 1..Len(d.docs) : NoEmptyOperand(d.docs[i])
    [] OTHER -> TRUE

C16_PSimplifiesBothSides ==
  (state # "start" /\ call.fn \in {"p", "hcat", "punctuate", "join"}) =>
    /\ NoEmptyOperand(doc)
    /\ call.fn = "p" =>
         doc = IF call.l.tag = "EmptyDoc" THEN call.r
               ELSE IF call.r.tag = "EmptyDoc" THEN call.l
               ELSE [tag |-> "PlusDoc", l |-> call.l, r |-> call.r]

(***************************************************************************)
(* C17.  pp(l, r, sep) with sep the Empty document, Text("") or the raw    *)
(* string "" returns the document p(l, r), never a PlusSep node, and the   *)
(* call returns; with every other separator it returns                     *)
(* PlusSep(l, toDoc(sep), r).                                              *)
(***************************************************************************)
C17_PpDegradesToP ==
  (state # "start" /\ call.fn = "pp") =>
    IF call.sep \in {[tag |-> "EmptyDoc"], [tag |-> "TextDoc", text |-> << >>],
                     [str |-> << >>]}
    THEN doc = p(call.l, call.r) /\ doc.tag # "PlusPlusDoc"
    ELSE doc = [tag |-> "PlusPlusDoc", l |-> call.l,
                sep |-> IF IsString(call.sep)
                        THEN [tag |-> "TextDoc", text |-> call.sep.str]
                        ELSE call.sep,
                r |-> call.r]

\* pp(text("a"), text("bc"), "") has been evaluated and is being rendered
C17_Witness ==
  /\ state = "running"
  /\ call.fn = "pp"
  /\ call.sep = [str |-> << >>]
  /\ call.l = text(<<"a">>)
  /\ doc = [tag |-> "PlusDoc", l |-> text(<<"a">>), r |-> text(<<"b", "c">>)]
  /\ writes = <<<<"a">>>>

(***************************************************************************)
(* C18.  render issues one write per rendered Text node, one per inserted  *)
(* padding run and one per line break, and no other write: where no        *)
(* padding is needed (the column is at or beyond the margin) at a Vertical *)
(* or Indent item or at a Nest node no write is issued, and none for an    *)
(* Empty node.                                                             *)
(***************************************************************************)
IsInserted(f) == f.kind # "pad" \/ f.bytes # << >>

C18_OneWritePerFragment ==
  (Done /\ call.fn # "nestNegative") =>
    writes = BytesOf(SelectSeq(Fragments(doc, 0, 0).ws, IsInserted))

(***************************************************************************)
(* C19.  With a sink that completes every write, render of a finite        *)
(* document eventually resolves, and it resolves only after the whole      *)
(* traversal: every fragment has been issued and written, no write is      *)
(* pending, and nothing is issued afterwards.                              *)
(***************************************************************************)
C19_AfterCompletion ==
  Done => UNCHANGED <<writes, pending, out, state>>

C19_Completion ==
  /\ <>Done
  /\ [](Done => /\ stack = << >>
                /\ pending = << >>
                /\ writes = Alone(doc)
                /\ out = Flat(writes))
  /\ [][C19_AfterCompletion]_vars

\* a block of two lines after a prefix has been written and render resolved
C19_Witness ==
  /\ Done
  /\ doc = NestBlock
  /\ Len(writes) = 7
  /\ out = <<"a", "b", "c", "h", "i", "\n", " ", " ", "t", "o">>

(***************************************************************************)
(* C20.  For documents whose texts hold no line break and whose nest       *)
(* offsets are not negative, the column render threads through the         *)
(* traversal is the physical column, the number of characters in the sink  *)
(* since the last line break, whenever no write is pending; also after a   *)
(* Nest reached beyond its margin, so that the lines of an Indent in it    *)
(* are aligned to the column where its first line starts.                  *)
(***************************************************************************)
RECURSIVE PhysicalColumn(_)
PhysicalColumn(s) ==
  IF s = << >> \/ s[Len(s)] = "\n" THEN 0
  ELSE 1 + PhysicalColumn(SubSeq(s, 1, Len(s) - 1))

C20_ColumnIsPhysical ==
  /\ (state \in {"running", "done"} /\ pending = << >> /\ call.fn # "nestNegative")
       => off = PhysicalColumn(out)
  /\ (Done /\ doc = NestIndent) =>
       out = <<"a", "b", "c", "h", "i", "\n", " ", " ", " ", "t", "o">>

====
